---- MODULE Spec2Model ----
(***************************************************************************)
(* A model of the asset subsystem of dataengine (src/dataengine/assets.py):*)
(* load_assets and the schemas it loads entries with,                      *)
(* load_asset_config_files, Bucket.add_dataset and the Database            *)
(* operations; and of the glue and GitHub utilities                        *)
(* (src/dataengine/utilities/glue_utils.py,                                *)
(* src/capsulecorp/utilities/github_utils.py).                             *)
(*                                                                         *)
(* Python values are records [k, s, n]: k is the type, s the characters of *)
(* a str (or the element kinds of a list / dict), n the number of an int   *)
(* or bool.  A str is a sequence of one-character strings, so that the     *)
(* regular expressions and int()/str() act on characters.                  *)
(***************************************************************************)
EXTENDS Integers, Sequences, FiniteSets, TLC

VARIABLES
    pc,            \* position of the running call
    raised,        \* the exception that left the call, type "none" if none
    returned,      \* what the call returned to its caller
    \* load_assets
    environ,       \* os.environ: variable name -> value (a str)
    asset_config,  \* the argument: a dict, as a sequence of [name, params]
    idx,           \* entries of asset_config already iterated
    asset_map,     \* the local asset_map
    \* load_asset_config_files
    files,         \* the file system: path -> content
    path_list,     \* the argument asset_config_path_list
    path_idx,      \* paths already iterated
    merged,        \* the local asset_config: a dict, as a sequence
    \* Bucket and BaseDataset objects
    datasets,      \* bucket -> its datasets list
    bucket,        \* dataset -> its bucket attribute, "None" if None
    \* a Database object and the calls of its methods
    database_type, \* the Database's database_type
    call,          \* the running call: method and arguments
    query,         \* delete's delete_query
    events,        \* what the running call did, in order
    open_conns,    \* connections opened and not closed
    calls,         \* calls finished
    \* the glue utilities (call, events and calls are theirs too)
    session_args,  \* the keys of session_args
    table_input    \* create_glue_table's table_input

callVars == <<pc, raised, returned>>
loadVars == <<environ, asset_config, idx, asset_map>>
fileVars == <<files, path_list, path_idx, merged>>
bucketVars == <<datasets, bucket>>
dbVars == <<database_type, call, query, events, open_conns, calls>>
utilVars == <<session_args, table_input>>
vars == <<callVars, loadVars, fileVars, bucketVars, dbVars, utilVars>>

----------------------------------------------------------------------------
(* Bounds *)

\* longest str over Alphabet given as an attribute value
MaxStrLen == 5
\* most entries of one configuration
MaxEntries == 2

----------------------------------------------------------------------------
(* Python values *)

StrV(chars) == [k |-> "str", s |-> chars, n |-> 0]
IntV(i) == [k |-> "int", s |-> <<>>, n |-> i]
BoolV(b) == [k |-> "bool", s |-> <<>>, n |-> IF b THEN 1 ELSE 0]
NoneV == [k |-> "none", s |-> <<>>, n |-> 0]
\* a list / a dict, by the kinds of its elements / values:
\* "s" a str, "i" an int, "d" a mapping that is a valid dataset entry
ListV(kinds) == [k |-> "list", s |-> kinds, n |-> 0]
DictV(kinds) == [k |-> "dict", s |-> kinds, n |-> 0]

Digits == <<"0", "1", "2", "3", "4", "5", "6", "7", "8", "9">>
IsDigit(c) == \E i \in 1..Len(Digits) : Digits[i] = c
DigitVal(c) == (CHOOSE i \in 1..Len(Digits) : Digits[i] = c) - 1

\* int(s) of a str of decimal digits
RECURSIVE ParseInt(_)
ParseInt(s) ==
    IF s = <<>> THEN 0
    ELSE ParseInt(SubSeq(s, 1, Len(s) - 1)) * Len(Digits) + DigitVal(s[Len(s)])

\* str(i) of an int
RECURSIVE NatToStr(_)
NatToStr(i) ==
    IF i < Len(Digits) THEN <<Digits[i + 1]>>
    ELSE NatToStr(i \div Len(Digits)) \o <<Digits[(i % Len(Digits)) + 1]>>

IntToStr(i) == IF i < 0 THEN <<"-">> \o NatToStr(-i) ELSE NatToStr(i)

\* str(value), as load_assets calls it before matching
PyStr(v) ==
    CASE v.k = "str" -> v.s
      [] v.k = "int" -> IntToStr(v.n)
      [] v.k = "bool" -> IF v.n = 1 THEN <<"T", "r", "u", "e">>
                         ELSE <<"F", "a", "l", "s", "e">>
      [] v.k = "none" -> <<"N", "o", "n", "e">>
      [] v.k = "list" -> <<"[">> \o v.s \o <<"]">>
      [] v.k = "dict" -> IF v.s = <<>> THEN <<"{", "}">>
                         ELSE <<"{", "'">> \o v.s \o <<"}">>

----------------------------------------------------------------------------
(* The environment resolver and the port coercion of load_assets *)

\* ENVIRONMENT_VAR_REGEX.fullmatch(s): "{{", one or more characters other
\* than a newline (lazily), "}}", the whole of s
EnvRegexFullMatch(s) ==
    /\ Len(s) >= 5
    /\ s[1] = "{" /\ s[2] = "{"
    /\ s[Len(s) - 1] = "}" /\ s[Len(s)] = "}"
    /\ \A i \in 3..(Len(s) - 2) : s[i] # "\n"

\* match.group(1) of a full match
EnvRegexGroup(s) == SubSeq(s, 3, Len(s) - 2)

\* os.getenv(name): the value, or None
GetEnv(env, name) == IF name \in DOMAIN env THEN StrV(env[name]) ELSE NoneV

\* re.fullmatch(r"[0-9]+", s)
PortRegexFullMatch(s) == Len(s) >= 1 /\ \A i \in 1..Len(s) : IsDigit(s[i])

\* int(value) of a value whose str is all digits
PyInt(v) == IF v.k = "int" THEN IntV(v.n) ELSE IntV(ParseInt(v.s))

\* the substitution step
Substitute(value, env) ==
    IF EnvRegexFullMatch(PyStr(value))
    THEN GetEnv(env, EnvRegexGroup(PyStr(value)))
    ELSE value

\* the port step, were it to read the digits of a str only
CoercePortOfStrOnly(key, value) ==
    IF key = "port"
    THEN IF value.k = "str" /\ PortRegexFullMatch(value.s)
         THEN IntV(ParseInt(value.s)) ELSE IntV(0)
    ELSE value

\* the port step
CoercePort(key, value) ==
    IF key = "port"
    THEN IF PortRegexFullMatch(PyStr(value)) THEN PyInt(value) ELSE IntV(0)
    ELSE value

\* the None step, left out
NoneKept(value) == value

\* the None step
NoneToEmpty(value) == IF value = NoneV THEN StrV(<<>>) ELSE value

\* the body of the loop over parameters.items(), for a key other than
\* asset_type: the value stored in config[key]
ResolveValue(key, value, env) ==
    NoneToEmpty(CoercePort(key, Substitute(value, env)))

\* config after the loop over parameters.items()
ResolveConfig(asset_name, parameters, env) ==
    [key \in {"asset_name"} \cup (DOMAIN parameters \ {"asset_type"}) |->
        IF key \in DOMAIN parameters
        THEN ResolveValue(key, parameters[key], env)
        ELSE StrV(asset_name)]

----------------------------------------------------------------------------
(* The words of the source, as characters *)

W_database == <<"d", "a", "t", "a", "b", "a", "s", "e">>
W_bucket == <<"b", "u", "c", "k", "e", "t">>
W_base_dataset == <<"b", "a", "s", "e", "_", "d", "a", "t", "a", "s", "e", "t">>
W_csv == <<"c", "s", "v">>
W_parquet == <<"p", "a", "r", "q", "u", "e", "t">>
W_delta == <<"d", "e", "l", "t", "a">>
W_avro == <<"a", "v", "r", "o">>
W_json == <<"j", "s", "o", "n">>
W_postgresql == <<"p", "o", "s", "t", "g", "r", "e", "s", "q", "l">>
W_mysql == <<"m", "y", "s", "q", "l">>
W_s3 == <<"s", "3">>
W_local == <<"l", "o", "c", "a", "l">>

\* the discriminator
AssetType(parameters) ==
    IF "asset_type" \notin DOMAIN parameters
    THEN StrV(W_base_dataset)
    ELSE parameters["asset_type"]

----------------------------------------------------------------------------
(* The marshmallow schemas: fields, required fields, validators, post_load *)
(*                                                                         *)
(* Schema.load as the schemas of assets.py use it: every field of the      *)
(* input is deserialized by its field class; a required field that is      *)
(* missing, a value its field class does not read and a key that is no     *)
(* field of the schema (no Meta.unknown is set, so unknown fields raise)   *)
(* each add a message; a @validates method runs on its field only when the *)
(* field deserialized; with any message Schema.load raises ValidationError,*)
(* otherwise the @post_load method makes the object.                       *)

SchemaNames == {"DatabaseSchema", "BucketSchema", "BaseDatasetSchema"}

\* declared fields and their field classes
FieldTypes(schema) ==
    CASE schema = "DatabaseSchema" ->
            [asset_name |-> "Str", database_type |-> "Str", host |-> "Str",
             port |-> "Integer", user |-> "Str", password |-> "Str"]
      [] schema = "BucketSchema" ->
            [asset_name |-> "Str", bucket_name |-> "Str", access_key |-> "Str",
             secret_key |-> "Str", datasets |-> "ListNested"]
      [] schema = "BaseDatasetSchema" ->
            [asset_name |-> "Str", file_path_list |-> "ListStr",
             file_format |-> "Str", bucket_asset_name |-> "Str",
             header |-> "Bool", schema |-> "DictStr"]

Fields(schema) == DOMAIN FieldTypes(schema)

\* fields declared required=True
Required(schema) ==
    CASE schema = "DatabaseSchema" ->
            {"asset_name", "database_type", "host", "port", "user", "password"}
      [] schema = "BucketSchema" -> {"asset_name", "bucket_name"}
      [] schema = "BaseDatasetSchema" -> {"asset_name", "file_path_list"}

\* fields declared with a load_default, and the default
LoadDefaults(schema) ==
    IF schema = "BaseDatasetSchema"
    THEN [file_format |-> StrV(W_csv), header |-> BoolV(TRUE)]
    ELSE << >>

\* fields.Bool: the strings it reads as True and as False
TruthyStrs ==
    {<<"t">>,
     <<"T">>,
     <<"t", "r", "u", "e">>,
     <<"T", "r", "u", "e">>,
     <<"T", "R", "U", "E">>,
     <<"o", "n">>,
     <<"O", "n">>,
     <<"O", "N">>,
     <<"y">>,
     <<"Y">>,
     <<"y", "e", "s">>,
     <<"Y", "e", "s">>,
     <<"Y", "E", "S">>,
     <<"1">>}
FalsyStrs ==
    {<<"f">>,
     <<"F">>,
     <<"f", "a", "l", "s", "e">>,
     <<"F", "a", "l", "s", "e">>,
     <<"F", "A", "L", "S", "E">>,
     <<"o", "f", "f">>,
     <<"O", "f", "f">>,
     <<"O", "F", "F">>,
     <<"n">>,
     <<"N">>,
     <<"n", "o">>,
     <<"N", "o">>,
     <<"N", "O">>,
     <<"0">>}

\* whether a field class deserializes the value without error
ValidFor(ftype, v) ==
    CASE ftype = "Str" -> v.k = "str"
      [] ftype = "Integer" -> v.k = "int"
      [] ftype = "Bool" ->
            \/ v.k = "bool"
            \/ v.k = "str" /\ v.s \in TruthyStrs \cup FalsyStrs
            \/ v.k = "int" /\ v.n \in {0, 1}
      [] ftype = "ListStr" ->
            v.k = "list" /\ \A i \in 1..Len(v.s) : v.s[i] = "s"
      [] ftype = "DictStr" ->
            v.k = "dict" /\ \A i \in 1..Len(v.s) : v.s[i] = "s"
      [] ftype = "ListNested" ->
            v.k = "list" /\ \A i \in 1..Len(v.s) : v.s[i] = "d"

\* the deserialized value of a valid input
Deserialized(ftype, v) ==
    IF ftype = "Bool"
    THEN BoolV(\/ v.k = "bool" /\ v.n = 1
               \/ v.k = "str" /\ v.s \in TruthyStrs
               \/ v.k = "int" /\ v.n = 1)
    ELSE v

\* valid_args of validate_file_format and of validate_database_type
ValidFileFormats == {W_csv, W_parquet, W_delta, W_avro, W_json}
ValidDatabaseTypes == {W_postgresql, W_mysql}

\* the field a schema validates with @validates, and its valid_args
ValidatedField(schema) ==
    CASE schema = "DatabaseSchema" -> "database_type"
      [] schema = "BaseDatasetSchema" -> "file_format"
      [] schema = "BucketSchema" -> "none"
ValidArgs(schema) ==
    CASE schema = "DatabaseSchema" -> ValidDatabaseTypes
      [] schema = "BaseDatasetSchema" -> ValidFileFormats
      [] schema = "BucketSchema" -> {}

\* the fields of the input that deserialize, with the load defaults
ValidData(schema, config) ==
    [f \in {g \in DOMAIN config \cap Fields(schema) :
                ValidFor(FieldTypes(schema)[g], config[g])}
           \cup (DOMAIN LoadDefaults(schema) \ DOMAIN config) |->
        IF f \in DOMAIN config
        THEN Deserialized(FieldTypes(schema)[f], config[f])
        ELSE LoadDefaults(schema)[f]]

\* the @validates methods, were DatabaseSchema to have none
ValidatorOfDatasetOnly(schema, data) ==
    /\ schema = "BaseDatasetSchema"
    /\ "file_format" \in DOMAIN data
    /\ data["file_format"].s \notin ValidFileFormats

\* the @validates method of the schema: runs on a field that deserialized
ValidatorRejects(schema, data) ==
    /\ ValidatedField(schema) \in DOMAIN data
    /\ data[ValidatedField(schema)].s \notin ValidArgs(schema)

\* Schema.load, were the schemas to exclude unknown fields
SchemaErrorsUnknownExcluded(schema, config) ==
    {<<f, "required">> : f \in Required(schema) \ DOMAIN config}
    \cup {<<f, "invalid">> : f \in
            {g \in DOMAIN config \cap Fields(schema) :
                ~ValidFor(FieldTypes(schema)[g], config[g])}}
    \cup {<<f, "choice">> : f \in
            {g \in {ValidatedField(schema)} :
                ValidatorRejects(schema, ValidData(schema, config))}}

\* the messages of the ValidationError of Schema.load, as <<field, kind>>:
\*   "required"  Missing data for required field.
\*   "invalid"   Not a valid string / integer / boolean / list / mapping.
\*   "unknown"   Unknown field.
\*   "choice"    Invalid <field> '<value>' provided, please choose among
\*               the list: [<valid_args>]
SchemaErrors(schema, config) ==
    {<<f, "required">> : f \in Required(schema) \ DOMAIN config}
    \cup {<<f, "invalid">> : f \in
            {g \in DOMAIN config \cap Fields(schema) :
                ~ValidFor(FieldTypes(schema)[g], config[g])}}
    \cup {<<f, "unknown">> : f \in DOMAIN config \ Fields(schema)}
    \cup {<<f, "choice">> : f \in
            {g \in {ValidatedField(schema)} :
                ValidatorRejects(schema, ValidData(schema, config))}}

\* Database(**input_data)
MakeDatabase(data) == data

\* Bucket(**data); datasets is no parameter of Bucket.__init__
BucketInitAccepts(data) == "datasets" \notin DOMAIN data
MakeBucket(data) ==
    [a \in {"asset_name", "bucket_name", "access_key", "secret_key",
            "datasets"} |->
        IF a = "datasets" THEN ListV(<<>>)
        ELSE IF a \in DOMAIN data THEN data[a] ELSE NoneV]

\* BaseDataset(**data)
MakeDataset(data) ==
    [a \in {"asset_name", "file_path_list", "file_format", "header",
            "schema", "bucket_asset_name", "location", "bucket"} |->
        CASE a = "location" ->
                IF "bucket_asset_name" \in DOMAIN data
                   /\ data["bucket_asset_name"].s # <<>>
                THEN StrV(W_s3) ELSE StrV(W_local)
          [] a = "bucket" -> NoneV
          [] OTHER -> IF a \in DOMAIN data THEN data[a] ELSE NoneV]

NoError == [type |-> "none", messages |-> {}]

\* Schema().load(config): the exception it raises, NoError if none
LoadError(schema, config) ==
    IF SchemaErrors(schema, config) # {}
    THEN [type |-> "ValidationError", messages |-> SchemaErrors(schema, config)]
    ELSE IF schema = "BucketSchema"
            /\ ~BucketInitAccepts(ValidData(schema, config))
    THEN [type |-> "TypeError", messages |-> {}]
    ELSE NoError

\* Schema().load(config): the object post_load makes, when nothing is raised
LoadObject(schema, config) ==
    CASE schema = "DatabaseSchema" -> MakeDatabase(ValidData(schema, config))
      [] schema = "BucketSchema" -> MakeBucket(ValidData(schema, config))
      [] schema = "BaseDatasetSchema" -> MakeDataset(ValidData(schema, config))

\* the branches of load_assets, were the last one an else
SchemaOfWithElse(asset_type) ==
    CASE asset_type = StrV(W_database) -> "DatabaseSchema"
      [] asset_type = StrV(W_bucket) -> "BucketSchema"
      [] OTHER -> "BaseDatasetSchema"

\* the schema and the collection of an asset type; "none" when no branch of
\* load_assets takes it
SchemaOf(asset_type) ==
    CASE asset_type = StrV(W_database) -> "DatabaseSchema"
      [] asset_type = StrV(W_bucket) -> "BucketSchema"
      [] asset_type = StrV(W_base_dataset) -> "BaseDatasetSchema"
      [] OTHER -> "none"
\* the branches of load_assets, were two of them to store in each other's
\* collection
CollectionOfSwapped(schema) ==
    CASE schema = "DatabaseSchema" -> "buckets"
      [] schema = "BucketSchema" -> "databases"
      [] schema = "BaseDatasetSchema" -> "base_datasets"
CollectionOf(schema) ==
    CASE schema = "DatabaseSchema" -> "databases"
      [] schema = "BucketSchema" -> "buckets"
      [] schema = "BaseDatasetSchema" -> "base_datasets"

----------------------------------------------------------------------------
(* load_assets, one loop iteration at a time *)

EmptyAssetMap == [buckets |-> << >>, base_datasets |-> << >>, databases |-> << >>]
Nothing == [kind |-> "nothing"]

\* the entry the loop is at
CurrentEntry == asset_config[idx + 1]

\* one iteration of the loop over asset_config.items(): resolve the
\* parameters, then load the entry with the schema of its asset type; an
\* exception of Schema.load leaves load_assets
LoadEntry ==
    /\ pc = "load_assets"
    /\ idx < Len(asset_config)
    /\ LET entry == CurrentEntry
           schema == SchemaOf(AssetType(entry.params))
           config == ResolveConfig(entry.name, entry.params, environ)
       IN IF schema = "none"
          THEN /\ idx' = idx + 1
               /\ UNCHANGED <<pc, asset_map, raised>>
          ELSE IF LoadError(schema, config) # NoError
          THEN /\ raised' = LoadError(schema, config)
               /\ pc' = "raised"
               /\ UNCHANGED <<idx, asset_map>>
          ELSE /\ asset_map' =
                     [asset_map EXCEPT ![CollectionOf(schema)] =
                         (entry.name :> LoadObject(schema, config)) @@ @]
               /\ idx' = idx + 1
               /\ UNCHANGED <<pc, raised>>
    /\ UNCHANGED <<environ, asset_config, returned>>
    /\ UNCHANGED <<fileVars, bucketVars, dbVars, utilVars>>

\* return asset_map, after the last entry
ReturnAssetMap ==
    /\ pc = "load_assets"
    /\ idx = Len(asset_config)
    /\ returned' = [kind |-> "asset_map", value |-> asset_map]
    /\ pc' = "done"
    /\ UNCHANGED <<environ, asset_config, idx, asset_map, raised>>
    /\ UNCHANGED <<fileVars, bucketVars, dbVars, utilVars>>

----------------------------------------------------------------------------
(* The configurations and environments load_assets is checked on *)

AssetNames == <<"x", "y", "z", "w">>
NameOf(i) == <<AssetNames[i]>>

W_true == <<"t", "r", "u", "e">>
W_xml == <<"x", "m", "l">>
W_oracle == <<"o", "r", "a", "c", "l", "e">>
W_view == <<"v", "i", "e", "w">>

\* a valid entry of each asset type, one without asset_type, and one of an
\* asset type load_assets has no branch for
Templates ==
    {[asset_type |-> StrV(W_database), database_type |-> StrV(W_postgresql),
      host |-> StrV(<<"h">>), port |-> StrV(<<"1", "2">>),
      user |-> StrV(<<"u">>), password |-> StrV(<<"p">>)],
     [asset_type |-> StrV(W_bucket), bucket_name |-> StrV(<<"b">>)],
     [asset_type |-> StrV(W_base_dataset), file_path_list |-> ListV(<<"s">>)],
     [file_path_list |-> ListV(<<"s">>)],
     [asset_type |-> StrV(W_view), file_path_list |-> ListV(<<"s">>)]}

PlaceholderA == <<"{", "{", "A", "}", "}">>
PlaceholderB == <<"{", "{", "B", "}", "}">>

\* attribute values: strs, ints, bools, None, lists and dicts
PoolValues ==
    {StrV(s) : s \in {<<>>, <<"h">>, <<"1", "2">>, <<"0", "7">>, <<"-", "1">>,
                      W_csv, W_json, W_xml, W_mysql, W_oracle, W_true,
                      W_database, PlaceholderA, PlaceholderB,
                      PlaceholderA \o PlaceholderA,
                      PlaceholderA \o <<"-">> \o PlaceholderB,
                      <<"h">> \o PlaceholderA,
                      <<"{", "{", "A", "\n", "}", "}">>}}
    \cup {IntV(12), IntV(-1), IntV(1), BoolV(TRUE), BoolV(FALSE), NoneV,
          ListV(<<>>), ListV(<<"s">>), ListV(<<"i">>), ListV(<<"d">>),
          DictV(<<"s">>), DictV(<<"i">>)}

EditKeys ==
    {"asset_name", "asset_type", "database_type", "host", "port",
     "bucket_name", "access_key", "datasets", "file_path_list",
     "file_format", "bucket_asset_name", "header", "schema", "bogus"}

Alphabet == {"{", "}", "A"}

\* every str over Alphabet of at most n characters
RECURSIVE StringsUpTo(_)
StringsUpTo(n) ==
    IF n = 0 THEN {<<>>}
    ELSE LET shorter == StringsUpTo(n - 1)
         IN shorter \cup {Append(s, c) : s \in shorter, c \in Alphabet}

SetKey(params, key, value) ==
    [k \in DOMAIN params \cup {key} |-> IF k = key THEN value ELSE params[k]]
DelKey(params, key) == [k \in DOMAIN params \ {key} |-> params[k]]

\* a template with one attribute given a value of the pool, or removed
PoolEntries ==
    Templates
    \cup {SetKey(t, k, v) : t \in Templates, k \in EditKeys, v \in PoolValues}
    \cup {DelKey(t, k) : t \in Templates, k \in EditKeys}

\* a template with one attribute given a str over Alphabet
AlphabetKeys ==
    {"asset_type", "host", "port", "access_key", "bucket_asset_name", "header"}
AlphabetEntries ==
    {SetKey(t, k, StrV(s)) :
        t \in {u \in Templates : "asset_type" \in DOMAIN u},
        k \in AlphabetKeys, s \in StringsUpTo(MaxStrLen)}

\* the entries of configurations of several entries
SmallEntries ==
    Templates
    \cup {SetKey(t, "asset_name", StrV(<<"q">>)) : t \in Templates}
    \cup {[asset_type |-> StrV(W_base_dataset), file_path_list |-> ListV(<<"s">>),
           file_format |-> StrV(W_xml)],
          [asset_type |-> StrV(W_bucket), bucket_name |-> StrV(<<"b">>),
           datasets |-> ListV(<<"d">>)]}

\* asset_config: a dict, so the names of its entries differ
Named(paramsSeq) ==
    [i \in 1..Len(paramsSeq) |-> [name |-> NameOf(i), params |-> paramsSeq[i]]]

RECURSIVE SeqsOfLen(_, _)
SeqsOfLen(S, n) ==
    IF n = 0 THEN {<<>>}
    ELSE {Append(q, e) : q \in SeqsOfLen(S, n - 1), e \in S}

Configs ==
    {Named(<<p>>) : p \in PoolEntries \cup AlphabetEntries}
    \cup UNION {{Named(q) : q \in SeqsOfLen(SmallEntries, n)} : n \in 2..MaxEntries}

EnvNames == {<<"A">>}
EnvValues == {<<>>, <<"h">>, <<"1", "2">>, <<"-", "1">>, W_true, W_csv, W_mysql}
AllEnvirons == UNION {[names -> EnvValues] : names \in SUBSET EnvNames}

\* whether the environment can matter to a configuration
HasBraces(config) ==
    \E i \in 1..Len(config) : \E k \in DOMAIN config[i].params :
        LET v == config[i].params[k]
        IN v.k = "str" /\ \E j \in 1..Len(v.s) : v.s[j] = "{"

\* the parts of the state a specification does not use
IdleLoad ==
    /\ environ = << >> /\ asset_config = << >> /\ idx = 0
    /\ asset_map = EmptyAssetMap
IdleFiles ==
    /\ files = << >> /\ path_list = << >> /\ path_idx = 0 /\ merged = << >>
IdleBuckets == datasets = << >> /\ bucket = << >>
IdleDatabase ==
    /\ database_type = "none" /\ call = Nothing /\ query = Nothing
    /\ events = << >> /\ open_conns = 0 /\ calls = 0
IdleUtilities == session_args = {} /\ table_input = Nothing

InitLoad ==
    /\ pc = "load_assets"
    /\ IdleFiles /\ IdleBuckets /\ IdleDatabase /\ IdleUtilities
    /\ asset_config \in Configs
    /\ environ \in IF HasBraces(asset_config) THEN AllEnvirons ELSE {<< >>}
    /\ idx = 0
    /\ asset_map = EmptyAssetMap
    /\ raised = NoError
    /\ returned = Nothing

NextLoad == LoadEntry \/ ReturnAssetMap

SpecLoad == InitLoad /\ [][NextLoad]_vars

----------------------------------------------------------------------------
(* What the claims speak of *)

\* the characters of an identifier
IdentStartChars ==
    {"a", "b", "c", "d", "e", "f", "g", "h", "i", "j", "k", "l", "m",
     "n", "o", "p", "q", "r", "s", "t", "u", "v", "w", "x", "y", "z",
     "A", "B", "C", "D", "E", "F", "G", "H", "I", "J", "K", "L", "M",
     "N", "O", "P", "Q", "R", "S", "T", "U", "V", "W", "X", "Y", "Z",
     "_"}
IdentChars == IdentStartChars \cup {Digits[i] : i \in 1..Len(Digits)}

IsIdentifier(s) ==
    /\ Len(s) >= 1
    /\ s[1] \in IdentStartChars
    /\ \A i \in 1..Len(s) : s[i] \in IdentChars

\* a value that is exactly one {{IDENTIFIER}} placeholder, and its name
IsPlaceholder(v) ==
    /\ v.k = "str"
    /\ Len(v.s) >= 5
    /\ SubSeq(v.s, 1, 2) = <<"{", "{">>
    /\ SubSeq(v.s, Len(v.s) - 1, Len(v.s)) = <<"}", "}">>
    /\ IsIdentifier(SubSeq(v.s, 3, Len(v.s) - 2))
PlaceholderName(v) == SubSeq(v.s, 3, Len(v.s) - 2)

\* the value of the named variable, the empty str when it is unset
EnvValueOrEmpty(name) ==
    IF name \in DOMAIN environ THEN StrV(environ[name]) ELSE StrV(<<>>)

\* the entries the loop has been at: the loaded or skipped ones, and the one
\* whose load raised
Processed == {i \in 1..Len(asset_config) : i <= idx \/ (pc = "raised" /\ i = idx + 1)}
\* the entries stored in a collection
IsType(i, word) ==
    /\ "asset_type" \in DOMAIN asset_config[i].params
    /\ asset_config[i].params["asset_type"] = StrV(word)
LacksType(i) == "asset_type" \notin DOMAIN asset_config[i].params
IsDatabaseEntry(i) == IsType(i, W_database)
IsBucketEntry(i) == IsType(i, W_bucket)
IsDatasetEntry(i) == IsType(i, W_base_dataset) \/ LacksType(i)
Stored ==
    {i \in 1..idx : IsDatabaseEntry(i) \/ IsBucketEntry(i) \/ IsDatasetEntry(i)}
StoredObject(i) ==
    LET name == asset_config[i].name
    IN IF IsDatabaseEntry(i) THEN asset_map.databases[name]
       ELSE IF IsBucketEntry(i) THEN asset_map.buckets[name]
       ELSE asset_map.base_datasets[name]
\* the attributes of an entry other than the discriminator
Attributes(i) == DOMAIN asset_config[i].params \ {"asset_type"}
\* the value load_assets hands to the schema for an attribute
Resolved(i, key) ==
    ResolveConfig(asset_config[i].name, asset_config[i].params, environ)[key]

----------------------------------------------------------------------------
(* C1 - C5, C7: load_assets *)

Params(i) == asset_config[i].params

\* C1, as claimed: on every loaded asset, each attribute other than
\* asset_type and port whose value is exactly a {{NAME}} placeholder is
\* stored as the value of the environment variable NAME, and as the empty
\* string when NAME is unset.
C1_StoredEqualsEnv ==
    \A i \in Stored : \A k \in Attributes(i) \ {"port"} :
        IsPlaceholder(Params(i)[k]) =>
            StoredObject(i)[k] = EnvValueOrEmpty(PlaceholderName(Params(i)[k]))

\* C1, amended: the value handed to the schema for such an attribute is the
\* variable's value, the empty string when unset; the loaded asset stores
\* that value for every attribute but header, which the boolean field
\* stores as the boolean the variable's value denotes.
C1_ResolvedEqualsEnv ==
    /\ \A i \in Processed : \A k \in Attributes(i) \ {"port"} :
        IsPlaceholder(Params(i)[k]) =>
            Resolved(i, k) = EnvValueOrEmpty(PlaceholderName(Params(i)[k]))
    /\ \A i \in Stored : \A k \in Attributes(i) \ {"port"} :
        IsPlaceholder(Params(i)[k]) =>
            LET value == EnvValueOrEmpty(PlaceholderName(Params(i)[k]))
            IN StoredObject(i)[k] =
                IF k = "header" THEN BoolV(value.s \in TruthyStrs) ELSE value

\* a loaded asset stores the non-empty value of a set variable
C1_Witness ==
    /\ pc = "done"
    /\ \E i \in Stored : \E k \in Attributes(i) \ {"port", "header"} :
        /\ IsPlaceholder(Params(i)[k])
        /\ PlaceholderName(Params(i)[k]) \in DOMAIN environ
        /\ environ[PlaceholderName(Params(i)[k])] # <<>>
        /\ StoredObject(i)[k] = StrV(environ[PlaceholderName(Params(i)[k])])

\* a str of decimal digits only, and the number it writes in base 10
AllDigits(s) ==
    /\ s # <<>>
    /\ \A i \in 1..Len(s) :
        s[i] \in {"0", "1", "2", "3", "4", "5", "6", "7", "8", "9"}
RECURSIVE PowerOfTen(_)
PowerOfTen(e) == IF e = 0 THEN 1 ELSE 10 * PowerOfTen(e - 1)
RECURSIVE DecimalFrom(_, _)
DecimalFrom(s, i) ==
    IF i > Len(s) THEN 0
    ELSE DigitVal(s[i]) * PowerOfTen(Len(s) - i) + DecimalFrom(s, i + 1)
DecimalValue(s) == DecimalFrom(s, 1)

\* the port after environment resolution: the variable's value for a
\* placeholder (None when unset), the value itself otherwise
ResolvedPort(i) ==
    LET raw == Params(i)["port"]
    IN IF IsPlaceholder(raw)
       THEN IF PlaceholderName(raw) \in DOMAIN environ
            THEN StrV(environ[PlaceholderName(raw)]) ELSE NoneV
       ELSE raw

\* C2: the port of a loaded database is the base-10 integer of the resolved
\* port when its string form is decimal digits only, and 0 otherwise.
C2_PortCoercion ==
    \A i \in Stored : IsDatabaseEntry(i) =>
        StoredObject(i)["port"] =
            IF AllDigits(PyStr(ResolvedPort(i)))
            THEN IntV(DecimalValue(PyStr(ResolvedPort(i))))
            ELSE IntV(0)

\* a database is loaded with the port a set variable writes in digits
C2_Witness ==
    /\ pc = "done"
    /\ \E i \in Stored :
        /\ IsDatabaseEntry(i)
        /\ IsPlaceholder(Params(i)["port"])
        /\ AllDigits(PyStr(ResolvedPort(i)))
        /\ StoredObject(i)["port"].n > 0

\* C3, as claimed: a str value that is not exactly one {{IDENTIFIER}}
\* placeholder passes through to the asset unchanged (for the attributes the
\* schema stores as given: not port, not header), and an entry whose
\* asset_type is a placeholder is not routed by the variable's value.
C3_NonPlaceholderUnchanged ==
    /\ \A i \in Stored : \A k \in Attributes(i) \ {"port", "header"} :
        (Params(i)[k].k = "str" /\ ~IsPlaceholder(Params(i)[k])) =>
            StoredObject(i)[k] = Params(i)[k]
    /\ \A i \in 1..idx :
        ("asset_type" \in DOMAIN Params(i) /\ IsPlaceholder(Params(i)["asset_type"])) =>
            /\ asset_config[i].name \notin DOMAIN asset_map.databases
            /\ asset_config[i].name \notin DOMAIN asset_map.buckets
            /\ asset_config[i].name \notin DOMAIN asset_map.base_datasets

\* the entry whose load raised, its schema, and why a load can raise
Failing == idx + 1
SchemaOfEntry(i) ==
    IF IsDatabaseEntry(i) THEN "DatabaseSchema"
    ELSE IF IsBucketEntry(i) THEN "BucketSchema"
    ELSE "BaseDatasetSchema"
MissingRequired(i) ==
    \E f \in Required(SchemaOfEntry(i)) \ {"asset_name"} : f \notin Attributes(i)
\* an enumerated field with a resolved value outside its closed set
EnumOutside(i) ==
    \/ /\ IsDatabaseEntry(i)
       /\ "database_type" \in Attributes(i)
       /\ Resolved(i, "database_type") \notin {StrV(w) : w \in {W_postgresql, W_mysql}}
    \/ /\ IsDatasetEntry(i)
       /\ "file_format" \in Attributes(i)
       /\ Resolved(i, "file_format") \notin
            {StrV(w) : w \in {W_csv, W_parquet, W_delta, W_avro, W_json}}
UnknownAttribute(i) == \E k \in Attributes(i) : k \notin Fields(SchemaOfEntry(i))
WrongType(i) ==
    \E k \in Attributes(i) \cap Fields(SchemaOfEntry(i)) :
        ~ValidFor(FieldTypes(SchemaOfEntry(i))[k], Resolved(i, k))
BucketWithDatasets(i) == IsBucketEntry(i) /\ "datasets" \in Attributes(i)

\* C4, as claimed: load_assets raises only when a required schema field is
\* missing or an enumerated field has a value outside its closed set.
C4_RaisesOnlyRequiredOrEnum ==
    pc = "raised" => (MissingRequired(Failing) \/ EnumOutside(Failing))

\* C4, amended: a placeholder naming an unset variable resolves to the empty
\* string without an error in the resolution; load_assets raises exactly at
\* the first entry whose resolved attributes its schema rejects: a required
\* field is missing, an enumerated field is outside its closed set, an
\* attribute is no field of the schema, or a resolved value has the wrong
\* type for its field (ValidationError); or at a bucket entry whose datasets
\* validate, which Bucket's constructor rejects (TypeError).
C4_RaisesExactlyOnSchemaFailure ==
    /\ \A i \in Processed : \A k \in Attributes(i) \ {"port"} :
        (IsPlaceholder(Params(i)[k])
            /\ PlaceholderName(Params(i)[k]) \notin DOMAIN environ) =>
                Resolved(i, k) = StrV(<<>>)
    /\ pc = "raised" =>
        /\ raised.type \in {"ValidationError", "TypeError"}
        /\ raised.type = "ValidationError" <=>
            \/ MissingRequired(Failing) \/ EnumOutside(Failing)
            \/ UnknownAttribute(Failing) \/ WrongType(Failing)
        /\ raised.type = "TypeError" => BucketWithDatasets(Failing)
    /\ \A i \in Stored :
        /\ ~MissingRequired(i) /\ ~EnumOutside(i)
        /\ ~UnknownAttribute(i) /\ ~WrongType(i)
        /\ ~BucketWithDatasets(i)

\* load_assets raises because header names an unset variable
C4_Witness ==
    /\ pc = "raised"
    /\ "header" \in Attributes(Failing)
    /\ IsPlaceholder(Params(Failing)["header"])
    /\ PlaceholderName(Params(Failing)["header"]) \notin DOMAIN environ
    /\ raised.messages = {<<"header", "invalid">>}

\* the enumerated field of an entry, when it gives one
EnumField(i) == IF IsDatabaseEntry(i) THEN "database_type" ELSE "file_format"
GivesEnum(i) ==
    /\ IsDatabaseEntry(i) \/ IsDatasetEntry(i)
    /\ EnumField(i) \in Attributes(i)
RaisedAt(i) == pc = "raised" /\ i = Failing
NamesValueAndValidSet(i) ==
    /\ RaisedAt(i)
    /\ raised.type = "ValidationError"
    /\ <<EnumField(i), "choice">> \in raised.messages

\* C5, as claimed: whenever the resolved file_format / database_type of an
\* entry is outside its closed set, load_assets raises a ValidationError
\* whose message names the value and the valid set.
C5_OutsideRaisesChoice ==
    \A i \in Processed : (GivesEnum(i) /\ EnumOutside(i)) => NamesValueAndValidSet(i)

\* C5, amended: when every earlier entry loaded, a resolved file_format /
\* database_type that is a str outside the closed set raises a
\* ValidationError whose message names the value and the valid set; one that
\* is no str raises a ValidationError saying the field is no valid string,
\* without the valid set; a value inside the set draws no error on the
\* field; and no asset map is returned once load_assets raised.
C5_EnumValidation ==
    /\ \A i \in Processed : GivesEnum(i) =>
        LET value == Resolved(i, EnumField(i))
        IN /\ (value.k = "str" /\ EnumOutside(i)) => NamesValueAndValidSet(i)
           /\ value.k # "str" =>
                /\ RaisedAt(i)
                /\ raised.type = "ValidationError"
                /\ <<EnumField(i), "invalid">> \in raised.messages
                /\ <<EnumField(i), "choice">> \notin raised.messages
           /\ (~EnumOutside(i) /\ RaisedAt(i)) =>
                \A m \in raised.messages : m[1] # EnumField(i)
    /\ pc = "raised" => returned = Nothing
    /\ returned # Nothing => raised = NoError

\* a dataset with a str file_format outside the set raises, naming it
C5_Witness ==
    /\ pc = "raised"
    /\ IsDatasetEntry(Failing)
    /\ "file_format" \in Attributes(Failing)
    /\ Resolved(Failing, "file_format").k = "str"
    /\ raised.messages = {<<"file_format", "choice">>}
    /\ returned = Nothing

\* C7: an entry of asset_type database, bucket or base_dataset is stored
\* under its name in databases, buckets or base_datasets and in no other
\* collection, as an object of that type; an entry without asset_type is
\* stored as a base_dataset.
C7_Routing ==
    \A i \in 1..idx :
        LET name == asset_config[i].name
            inDatabases == name \in DOMAIN asset_map.databases
            inBuckets == name \in DOMAIN asset_map.buckets
            inDatasets == name \in DOMAIN asset_map.base_datasets
        IN /\ IsDatabaseEntry(i) =>
                /\ inDatabases /\ ~inBuckets /\ ~inDatasets
                /\ "database_type" \in DOMAIN asset_map.databases[name]
           /\ IsBucketEntry(i) =>
                /\ inBuckets /\ ~inDatabases /\ ~inDatasets
                /\ "bucket_name" \in DOMAIN asset_map.buckets[name]
           /\ (IsType(i, W_base_dataset) \/ LacksType(i)) =>
                /\ inDatasets /\ ~inDatabases /\ ~inBuckets
                /\ "file_path_list" \in DOMAIN asset_map.base_datasets[name]

\* a database and an entry without asset_type are returned, each in its
\* collection
C7_Witness ==
    /\ pc = "done"
    /\ \E i, j \in 1..Len(asset_config) :
        /\ IsDatabaseEntry(i) /\ LacksType(j)
        /\ asset_config[i].name \in DOMAIN returned.value.databases
        /\ asset_config[j].name \in DOMAIN returned.value.base_datasets

----------------------------------------------------------------------------
(* load_asset_config_files, one path at a time *)

\* most paths of one path list
MaxPaths == 2

\* dict lookups on a dict kept as a sequence of [name, params]
DictNames(d) == {d[i].name : i \in 1..Len(d)}
DictGet(d, name) == d[CHOOSE i \in 1..Len(d) : d[i].name = name].params

\* d[name] = params: in place for a key d has, at the end for a new one
DictSet(d, name, params) ==
    IF name \in DictNames(d)
    THEN [i \in 1..Len(d) |->
            IF d[i].name = name THEN [name |-> name, params |-> params] ELSE d[i]]
    ELSE Append(d, [name |-> name, params |-> params])

\* an update that merges the attribute mappings of a name both have
RECURSIVE DictUpdateDeep(_, _)
DictUpdateDeep(d, doc) ==
    IF doc = << >> THEN d
    ELSE LET name == Head(doc).name
             new == Head(doc).params
             old == IF name \in DictNames(d) THEN DictGet(d, name) ELSE << >>
         IN DictUpdateDeep(
                DictSet(d, name,
                    [k \in DOMAIN old \cup DOMAIN new |->
                        IF k \in DOMAIN new THEN new[k] ELSE old[k]]),
                Tail(doc))

\* d.update(doc)
RECURSIVE DictUpdate(_, _)
DictUpdate(d, doc) ==
    IF doc = << >> THEN d
    ELSE DictUpdate(DictSet(d, Head(doc).name, Head(doc).params), Tail(doc))

\* open(path) and yaml.safe_load(f): what they raise, NoError if nothing
ReadError(content) ==
    CASE content.kind = "missing" -> [type |-> "FileNotFoundError", messages |-> {}]
      [] content.kind = "unparsable" -> [type |-> "YAMLError", messages |-> {}]
      \* safe_load gives None for an empty document; update(None) raises
      [] content.kind = "empty" -> [type |-> "TypeError", messages |-> {}]
      \* safe_load gives an int for a document that is a number; update(5)
      \* raises
      [] content.kind = "number" -> [type |-> "TypeError", messages |-> {}]
      \* a mapping, and a list of [name, attributes] pairs, which update
      \* reads as it reads a mapping
      [] OTHER -> NoError

\* one iteration of the loop over asset_config_path_list
ReadConfigFile ==
    /\ pc = "load_asset_config_files"
    /\ path_idx < Len(path_list)
    /\ LET content == files[path_list[path_idx + 1]]
       IN IF ReadError(content) # NoError
          THEN /\ raised' = ReadError(content)
               /\ pc' = "raised"
               /\ UNCHANGED <<path_idx, merged>>
          ELSE /\ merged' = DictUpdate(merged, content.doc)
               /\ path_idx' = path_idx + 1
               /\ UNCHANGED <<pc, raised>>
    /\ UNCHANGED <<returned, files, path_list>>
    /\ UNCHANGED <<loadVars, bucketVars, dbVars, utilVars>>

\* return asset_config, after the last path
ReturnAssetConfig ==
    /\ pc = "load_asset_config_files"
    /\ path_idx = Len(path_list)
    /\ returned' = [kind |-> "asset_config", value |-> merged]
    /\ pc' = "done"
    /\ UNCHANGED <<raised, fileVars, loadVars, bucketVars, dbVars, utilVars>>

\* the file systems and path lists load_asset_config_files is checked on
Paths == {"config1.yaml", "config2.yaml"}
AttributeMappings == {[host |-> StrV(<<"h">>)], [port |-> StrV(<<"1", "2">>)]}
Documents ==
    {<< >>}
    \cup {<<[name |-> NameOf(i), params |-> a]>> : i \in {1, 2}, a \in AttributeMappings}
    \cup {<<[name |-> NameOf(i), params |-> a], [name |-> NameOf(3 - i), params |-> b]>> :
            i \in {1, 2}, a \in AttributeMappings, b \in AttributeMappings}
PairLists == {<<[name |-> NameOf(3), params |-> [host |-> StrV(<<"h">>)]]>>}
FileContents ==
    {[kind |-> k, doc |-> << >>] :
        k \in {"missing", "unparsable", "empty", "number"}}
    \cup {[kind |-> "mapping", doc |-> d] : d \in Documents}
    \cup {[kind |-> "pairs", doc |-> d] : d \in PairLists}

InitFiles ==
    /\ pc = "load_asset_config_files"
    /\ raised = NoError
    /\ returned = Nothing
    /\ files \in [Paths -> FileContents]
    /\ path_list \in UNION {[1..n -> Paths] : n \in 0..MaxPaths}
    /\ path_idx = 0
    /\ merged = << >>
    /\ IdleLoad /\ IdleBuckets /\ IdleDatabase /\ IdleUtilities

NextFiles == ReadConfigFile \/ ReturnAssetConfig

SpecFiles == InitFiles /\ [][NextFiles]_vars

\* the documents of the path list, and the last one that defines a name
DocumentAt(j) == files[path_list[j]].doc
Defines(j, name) == name \in DictNames(DocumentAt(j))
LastDefining(name) ==
    CHOOSE j \in 1..Len(path_list) :
        /\ Defines(j, name)
        /\ \A later \in (j + 1)..Len(path_list) : ~Defines(later, name)

\* C6: the mapping load_asset_config_files returns holds, for every asset
\* name a file of the list defines, exactly the attribute mapping of the last
\* file of the list that defines it, and holds no other name.
C6_LastFileWins ==
    (pc = "done" /\ returned.kind = "asset_config") =>
        /\ DictNames(returned.value) =
                UNION {DictNames(DocumentAt(j)) : j \in 1..Len(path_list)}
        /\ \A name \in DictNames(returned.value) :
                DictGet(returned.value, name) =
                    DictGet(DocumentAt(LastDefining(name)), name)

\* two files define the same name with different attributes, and the result
\* holds the second file's
C6_Witness ==
    /\ pc = "done"
    /\ returned.kind = "asset_config"
    /\ Len(path_list) = 2
    /\ \E name \in DictNames(returned.value) :
        /\ Defines(1, name) /\ Defines(2, name)
        /\ DictGet(DocumentAt(1), name) # DictGet(DocumentAt(2), name)
        /\ DictGet(returned.value, name) = DictGet(DocumentAt(2), name)

\* a path of the list is missing or its content is not a mapping
Unreadable(j) == files[path_list[j]].kind # "mapping"

\* C13: load_asset_config_files fails with a ConfigReadError when a path of
\* the list is missing or its content is unparsable, empty or not a mapping,
\* and then returns no partial merged mapping, however many earlier paths
\* were read.
C13_ConfigReadError ==
    /\ pc = "raised" => returned = Nothing
    /\ (pc \in {"done", "raised"} /\ \E j \in 1..Len(path_list) : Unreadable(j)) =>
        /\ pc = "raised"
        /\ raised.type = "ConfigReadError"

----------------------------------------------------------------------------
(* Bucket.add_dataset, BaseDataset.set_bucket and get_bucket_name *)

\* most add_dataset calls of one run
MaxAdds == 4

BucketObjects == {"bucket1", "bucket2"}
DatasetObjects == {"dataset1", "dataset2"}

\* dataset.set_bucket(b), were it to keep a bucket already set
SetBucketOnce(d, b) ==
    bucket' = [bucket EXCEPT ![d] = IF @ = "None" THEN b ELSE @]

\* dataset.set_bucket(b)
SetBucket(d, b) == bucket' = [bucket EXCEPT ![d] = b]

\* dataset.get_bucket_name(); a bucket's bucket_name is written as the bucket
GetBucketName(d) == IF bucket[d] # "None" THEN bucket[d] ELSE "Unassigned"

TotalAdds ==
    LET RECURSIVE Sum(_)
        Sum(S) == IF S = {} THEN 0
                  ELSE LET b == CHOOSE x \in S : TRUE
                       IN Len(datasets[b]) + Sum(S \ {b})
    IN Sum(BucketObjects)

\* b.add_dataset(d)
AddDataset(b, d) ==
    /\ pc = "objects"
    /\ TotalAdds < MaxAdds
    /\ datasets' = [datasets EXCEPT ![b] = Append(@, d)]
    /\ SetBucket(d, b)
    /\ UNCHANGED <<callVars, loadVars, fileVars, dbVars, utilVars>>

\* after Bucket.__init__ and BaseDataset.__init__
InitBuckets ==
    /\ pc = "objects"
    /\ raised = NoError
    /\ returned = Nothing
    /\ datasets = [b \in BucketObjects |-> << >>]
    /\ bucket = [d \in DatasetObjects |-> "None"]
    /\ IdleLoad /\ IdleFiles /\ IdleDatabase /\ IdleUtilities

NextBuckets == \E b \in BucketObjects, d \in DatasetObjects : AddDataset(b, d)

SpecBuckets == InitBuckets /\ [][NextBuckets]_vars

\* how often a dataset is in a bucket's datasets list
Occurrences(b, d) == Cardinality({i \in 1..Len(datasets[b]) : datasets[b][i] = d})

\* C8: each dataset is in at most one bucket's datasets list, and at most
\* once in it.
C8_AtMostOneBucket ==
    \A d \in DatasetObjects :
        /\ \A b \in BucketObjects : Occurrences(b, d) <= 1
        /\ Cardinality({b \in BucketObjects : Occurrences(b, d) >= 1}) <= 1

\* the dataset was added to a bucket by some add_dataset call
Added(d) == \E b \in BucketObjects : Occurrences(b, d) >= 1

\* the step is a call b.add_dataset(d): the datasets list of b grows by d
IsAddDataset(b, d) == datasets'[b] = Append(datasets[b], d)

\* C15: after any sequence of add_dataset calls a dataset's back-reference
\* is the bucket of the most recent call that added it (each call sets it
\* to its bucket and leaves the other datasets' alone), a dataset never
\* added has no bucket and get_bucket_name gives "Unassigned" for it, and a
\* dataset whose bucket is B is in B.datasets.
C15_LastWriteWins ==
    /\ [](\A d \in DatasetObjects :
            /\ ~Added(d) => (bucket[d] = "None" /\ GetBucketName(d) = "Unassigned")
            /\ \A b \in BucketObjects :
                    bucket[d] = b => (Occurrences(b, d) >= 1 /\ GetBucketName(d) = b))
    /\ [][\A b \in BucketObjects, d \in DatasetObjects :
            IsAddDataset(b, d) =>
                /\ bucket'[d] = b
                /\ \A e \in DatasetObjects \ {d} : bucket'[e] = bucket[e]]_vars

\* dataset1 was added to bucket1 and to bucket2, the second last, and
\* dataset2 never
C15_Witness ==
    /\ Occurrences("bucket1", "dataset1") >= 1
    /\ datasets["bucket2"] # << >>
    /\ datasets["bucket2"][Len(datasets["bucket2"])] = "dataset1"
    /\ bucket["dataset1"] = "bucket2"
    /\ ~Added("dataset2")
    /\ GetBucketName("dataset2") = "Unassigned"

----------------------------------------------------------------------------
(* Database.truncate, Database.delete and Database.load_into, one step of  *)
(* a call at a time.  A call of the database client may raise: which       *)
(* outcome it has is chosen by the environment.                            *)

\* most calls of one run
MaxCalls == 2

Bool(b) == [kind |-> "bool", value |-> b]
Exception(at) == [type |-> "Exception", messages |-> {at}]

\* the methods and their arguments; days and column_header are None or given
Calls ==
    {[method |-> "truncate", delete_all |-> FALSE, days |-> FALSE,
      column_header |-> FALSE],
     [method |-> "load_into", delete_all |-> FALSE, days |-> FALSE,
      column_header |-> FALSE]}
    \cup {[method |-> "delete", delete_all |-> a, days |-> d, column_header |-> c] :
            a \in BOOLEAN, d \in BOOLEAN, c \in BOOLEAN}

\* the return of a call and the exception that leaves it
Return(value) ==
    /\ returned' = Bool(value)
    /\ pc' = "finished"
    /\ calls' = calls + 1
    /\ UNCHANGED raised
Propagate(at) ==
    /\ raised' = Exception(at)
    /\ pc' = "finished"
    /\ calls' = calls + 1
    /\ UNCHANGED returned

\* a caller calls a method of the Database
Call(c) ==
    /\ pc \in {"database", "finished"}
    /\ calls < MaxCalls
    /\ call' = c
    /\ query' = Nothing
    /\ events' = << >>
    /\ raised' = NoError
    /\ returned' = Nothing
    /\ pc' = "get_connection"
    /\ UNCHANGED <<database_type, open_conns, calls>>
    /\ UNCHANGED <<loadVars, fileVars, bucketVars, utilVars>>

\* conn = self.get_connection(schema_name), the first statement of truncate
\* and load_into and the second of delete: outside any try
GetConnection ==
    /\ pc = "get_connection"
    /\ \/ /\ events' = Append(events, "connect")
          /\ open_conns' = open_conns + 1
          /\ pc' = CASE call.method = "truncate" -> "try"
                     [] call.method = "delete" -> "build_query"
                     [] call.method = "load_into" -> "load_from_s3"
          /\ UNCHANGED <<raised, returned, calls>>
       \/ /\ events' = Append(events, "raise_connect")
          /\ Propagate("get_connection")
          /\ UNCHANGED open_conns
    /\ UNCHANGED <<database_type, call, query>>
    /\ UNCHANGED <<loadVars, fileVars, bucketVars, utilVars>>

\* delete: the construction of delete_query, and the return without it
BuildDeleteQuery ==
    /\ pc = "build_query"
    /\ IF call.delete_all
       THEN /\ query' = [kind |-> "delete", where |-> FALSE,
                         optimize |-> database_type = "mysql"]
            /\ pc' = "try"
            /\ UNCHANGED <<events, raised, returned, calls>>
       ELSE IF call.days /\ call.column_header
       THEN /\ query' = [kind |-> "delete", where |-> TRUE,
                         optimize |-> database_type = "mysql"]
            /\ pc' = "try"
            /\ UNCHANGED <<events, raised, returned, calls>>
       ELSE /\ events' = Append(events, "log_error")
            /\ Return(FALSE)
            /\ UNCHANGED query
    /\ UNCHANGED <<database_type, call, open_conns>>
    /\ UNCHANGED <<loadVars, fileVars, bucketVars, utilVars>>

\* cur.execute(...), were an exception of it logged without leaving the try
ExecuteAndGoOn ==
    /\ pc = "try"
    /\ \/ /\ events' = Append(events, "execute")
          /\ pc' = "commit"
          /\ UNCHANGED <<raised, returned, calls>>
       \/ /\ events' = events \o <<"raise_cursor", "log_error">>
          /\ Return(FALSE)
       \/ /\ events' = events \o <<"execute", "raise_execute", "log_error">>
          /\ pc' = "commit"
          /\ UNCHANGED <<raised, returned, calls>>
    /\ UNCHANGED <<database_type, call, query, open_conns>>
    /\ UNCHANGED <<loadVars, fileVars, bucketVars, utilVars>>

\* truncate and delete: with conn.cursor() as cur: cur.execute(...), in the
\* try; an exception is logged and the call returns False
Execute ==
    /\ pc = "try"
    /\ \/ /\ events' = Append(events, "execute")
          /\ pc' = "commit"
          /\ UNCHANGED <<raised, returned, calls>>
       \/ /\ events' = events \o <<"raise_cursor", "log_error">>
          /\ Return(FALSE)
       \/ /\ events' = events \o <<"execute", "raise_execute", "log_error">>
          /\ Return(FALSE)
    /\ UNCHANGED <<database_type, call, query, open_conns>>
    /\ UNCHANGED <<loadVars, fileVars, bucketVars, utilVars>>

\* truncate and delete: conn.commit(), in the try, then the success flag
Commit ==
    /\ pc = "commit"
    /\ \/ /\ events' = events \o <<"commit", "log_info">>
          /\ Return(TRUE)
       \/ /\ events' = events \o <<"raise_commit", "log_error">>
          /\ Return(FALSE)
    /\ UNCHANGED <<database_type, call, query, open_conns>>
    /\ UNCHANGED <<loadVars, fileVars, bucketVars, utilVars>>

\* what load_from_s3 of mysql_utils / postgresql_utils gives load_into
LoadFromS3Results == BOOLEAN

\* load_into: load_from_s3, the log, conn.close() and the return
LoadFromS3 ==
    /\ pc = "load_from_s3"
    /\ \E success \in LoadFromS3Results :
        /\ events' = events \o <<"load_from_s3",
                                 IF success THEN "log_info" ELSE "log_error",
                                 "close">>
        /\ Return(success)
    /\ open_conns' = open_conns - 1
    /\ UNCHANGED <<database_type, call, query>>
    /\ UNCHANGED <<loadVars, fileVars, bucketVars, utilVars>>

\* after Database.__init__
InitDatabase ==
    /\ pc = "database"
    /\ raised = NoError
    /\ returned = Nothing
    /\ database_type \in {"mysql", "postgresql"}
    /\ call = Nothing
    /\ query = Nothing
    /\ events = << >>
    /\ open_conns = 0
    /\ calls = 0
    /\ IdleLoad /\ IdleFiles /\ IdleBuckets /\ IdleUtilities

NextDatabase ==
    \/ \E c \in Calls : Call(c)
    \/ GetConnection
    \/ BuildDeleteQuery
    \/ Execute
    \/ Commit
    \/ LoadFromS3

SpecDatabase == InitDatabase /\ [][NextDatabase]_vars

Did(event) == \E i \in 1..Len(events) : events[i] = event
Finished == pc = "finished"
\* delete without delete_all and without both days and column_header
LacksDeleteArguments ==
    /\ call.method = "delete"
    /\ ~call.delete_all
    /\ ~(call.days /\ call.column_header)

\* C9: a delete call with delete_all false and days or column_header missing
\* logs, returns False and executes no query; delete executes a query only
\* when delete_all is true or both days and column_header are given.
C9_DeleteFailsFast ==
    /\ (Finished /\ LacksDeleteArguments) =>
        /\ returned = Bool(FALSE)
        /\ Did("log_error")
        /\ ~Did("execute")
    /\ (pc \notin {"database", "get_connection"} /\ LacksDeleteArguments) =>
        ~Did("execute")

\* an exception was raised at a step of the running call
RaisedAtAStep ==
    \/ Did("raise_connect") \/ Did("raise_cursor")
    \/ Did("raise_execute") \/ Did("raise_commit")

\* C10: an exception raised at any step of a delete, truncate or load_into
\* call is not propagated: the call logs and returns False.
C10_NoExceptionPropagates ==
    (Finished /\ RaisedAtAStep) =>
        /\ raised = NoError
        /\ returned = Bool(FALSE)
        /\ Did("log_error")

\* how often the running call did an event
Count(event) == Cardinality({i \in 1..Len(events) : events[i] = event})

\* C11: every delete, truncate and load_into call opens exactly one
\* connection and has closed it when the call returns, on the success path,
\* the exception path and delete's fail-fast path: no connection is open
\* after any sequence of calls.
C11_NoConnectionStaysOpen ==
    /\ Count("connect") <= 1
    /\ Finished =>
        /\ Count("connect") = Count("close")
        /\ open_conns = 0

\* the running call is a truncate or a delete
IsTruncateOrDelete == call # Nothing /\ call.method \in {"truncate", "delete"}
\* conn.commit() was called at event i, and returned or raised
CommitCalledAt(i) == events[i] \in {"commit", "raise_commit"}

\* C17: in truncate and delete commit is called only after execute returned
\* without raising and never when execute raised, and the call returns True
\* exactly when both execute and commit returned without raising.
C17_ExecuteThenCommit ==
    IsTruncateOrDelete =>
        /\ \A i \in 1..Len(events) : CommitCalledAt(i) =>
                /\ \E j \in 1..(i - 1) : events[j] = "execute"
                /\ ~Did("raise_execute")
                /\ ~Did("raise_cursor")
        /\ Finished =>
                (returned = Bool(TRUE) <=>
                    (Did("execute") /\ ~Did("raise_execute") /\ Did("commit")))

\* the second call of a run, a delete whose execute and commit both
\* returned, gave True
C17_Witness ==
    /\ Finished
    /\ calls = 2
    /\ call.method = "delete"
    /\ Did("execute") /\ Did("commit")
    /\ returned = Bool(TRUE)

----------------------------------------------------------------------------
(* create_glue_table, delete_glue_table and start_glue_crawler of          *)
(* glue_utils.py and update_source of github_utils.py, one step of a call  *)
(* at a time.  A call of boto3 or of the GitHub client may raise: which    *)
(* outcome it has is chosen by the environment.                            *)

GlueFunctions == {"create_glue_table", "delete_glue_table", "start_glue_crawler"}

\* the functions and their arguments: a credential or region is given or
\* left None; is_delta is create_glue_table's
UtilityCalls ==
    {c \in [function : GlueFunctions, aws_access_key_id : BOOLEAN,
            aws_secret_access_key : BOOLEAN, aws_region_name : BOOLEAN,
            is_delta : BOOLEAN] :
        c.is_delta => c.function = "create_glue_table"}
    \cup {[function |-> "update_source", aws_access_key_id |-> FALSE,
           aws_secret_access_key |-> FALSE, aws_region_name |-> FALSE,
           is_delta |-> FALSE]}

\* the exception the SDK call of a function has an except clause of its own for
NamedException(function) ==
    CASE function = "create_glue_table" -> "AlreadyExistsException"
      [] function = "delete_glue_table" -> "EntityNotFoundException"
      [] OTHER -> "none"

\* the commit dict update_source returns
Commit_dict == [kind |-> "commit"]

\* a caller calls a utility function
CallUtility(c) ==
    /\ pc \in {"utilities", "finished"}
    /\ calls < MaxCalls
    /\ call' = c
    /\ events' = << >>
    /\ session_args' = {}
    /\ table_input' = Nothing
    /\ raised' = NoError
    /\ returned' = Nothing
    /\ pc' = IF c.function = "update_source" THEN "get_gh_objects"
             ELSE "session_args"
    /\ UNCHANGED <<database_type, query, open_conns, calls>>
    /\ UNCHANGED <<loadVars, fileVars, bucketVars>>

\* the glue functions: session_args from the optional arguments
SetupSessionArgs ==
    /\ pc = "session_args"
    /\ session_args' =
            (IF call.aws_access_key_id /\ call.aws_secret_access_key
             THEN {"aws_access_key_id", "aws_secret_access_key"} ELSE {})
            \cup (IF call.aws_region_name THEN {"region_name"} ELSE {})
    /\ pc' = "session"
    /\ UNCHANGED <<raised, returned, table_input>>
    /\ UNCHANGED <<loadVars, fileVars, bucketVars, dbVars>>

\* session = boto3.Session(**session_args), before the try
Session ==
    /\ pc = "session"
    /\ \/ /\ events' = Append(events, "Session")
          /\ pc' = "client"
          /\ UNCHANGED <<raised, returned, calls>>
       \/ /\ events' = Append(events, "raise_Session")
          /\ Propagate("boto3.Session")
    /\ UNCHANGED <<database_type, call, query, open_conns, utilVars>>
    /\ UNCHANGED <<loadVars, fileVars, bucketVars>>

\* glue_client = session.client('glue'), before the try
Client ==
    /\ pc = "client"
    /\ \/ /\ events' = Append(events, "client")
          /\ pc' = IF call.function = "create_glue_table" THEN "table_input"
                   ELSE "try"
          /\ UNCHANGED <<raised, returned, calls>>
       \/ /\ events' = Append(events, "raise_client")
          /\ Propagate("session.client")
    /\ UNCHANGED <<database_type, call, query, open_conns, utilVars>>
    /\ UNCHANGED <<loadVars, fileVars, bucketVars>>

\* create_glue_table: the table definition
TableInput ==
    /\ pc = "table_input"
    /\ table_input' = [TableType |-> "EXTERNAL_TABLE",
                       Parameters |->
                            IF call.is_delta
                            THEN {<<"classification", "parquet">>,
                                  <<"table_type", "DELTA">>}
                            ELSE {<<"classification", "parquet">>}]
    /\ pc' = "try"
    /\ UNCHANGED <<raised, returned, session_args>>
    /\ UNCHANGED <<loadVars, fileVars, bucketVars, dbVars>>

\* the SDK call (create_table, delete_table, start_crawler) in the try: True
\* when it returns, False when it raises the exception with a clause of its
\* own or any other
SdkCall ==
    /\ pc = "try"
    /\ call.function \in GlueFunctions
    /\ \/ /\ events' = events \o <<"sdk_call", "print">>
          /\ Return(TRUE)
       \/ /\ NamedException(call.function) # "none"
          /\ events' = events \o <<NamedException(call.function), "print">>
          /\ Return(FALSE)
       \/ /\ events' = events \o <<"raise_sdk_call", "print">>
          /\ Return(FALSE)
    /\ UNCHANGED <<database_type, call, query, open_conns, utilVars>>
    /\ UNCHANGED <<loadVars, fileVars, bucketVars>>

\* update_source: _get_gh_objects, that is Github(...), g.get_repo and
\* repo.get_contents; no try around it or in it
GetGhObjects ==
    /\ pc = "get_gh_objects"
    /\ \/ /\ events' = events \o <<"get_repo", "get_contents">>
          /\ pc' = "update_file"
          /\ UNCHANGED <<raised, returned, calls>>
       \/ /\ events' = Append(events, "raise_get_repo")
          /\ Propagate("get_repo")
       \/ /\ events' = events \o <<"get_repo", "raise_get_contents">>
          /\ Propagate("get_contents")
    /\ UNCHANGED <<database_type, call, query, open_conns, utilVars>>
    /\ UNCHANGED <<loadVars, fileVars, bucketVars>>

\* update_source: return repo.update_file(...); no try around it
UpdateFile ==
    /\ pc = "update_file"
    /\ \/ /\ events' = Append(events, "update_file")
          /\ returned' = Commit_dict
          /\ pc' = "finished"
          /\ calls' = calls + 1
          /\ UNCHANGED raised
       \/ /\ events' = Append(events, "raise_update_file")
          /\ Propagate("update_file")
    /\ UNCHANGED <<database_type, call, query, open_conns, utilVars>>
    /\ UNCHANGED <<loadVars, fileVars, bucketVars>>

InitUtilities ==
    /\ pc = "utilities"
    /\ raised = NoError
    /\ returned = Nothing
    /\ IdleLoad /\ IdleFiles /\ IdleBuckets /\ IdleDatabase /\ IdleUtilities

NextUtilities ==
    \/ \E c \in UtilityCalls : CallUtility(c)
    \/ SetupSessionArgs
    \/ Session
    \/ Client
    \/ TableInput
    \/ SdkCall
    \/ GetGhObjects
    \/ UpdateFile

SpecUtilities == InitUtilities /\ [][NextUtilities]_vars

\* a step of the running utility call failed
FailedAtAStep ==
    \/ Did("raise_Session") \/ Did("raise_client") \/ Did("raise_sdk_call")
    \/ Did("AlreadyExistsException") \/ Did("EntityNotFoundException")
    \/ Did("raise_get_repo") \/ Did("raise_get_contents")
    \/ Did("raise_update_file")

\* C12: a failure at any step of create_glue_table, delete_glue_table,
\* start_glue_crawler or update_source, the creation of the session and the
\* client and the fetch of the file contents included, is not propagated:
\* the call reports False (update_source: no commit); and a glue function
\* returns True exactly when the SDK call raised nothing.
C12_UtilityFailuresReported ==
    Finished =>
        /\ FailedAtAStep =>
            /\ raised = NoError
            /\ returned # Commit_dict
            /\ call.function \in GlueFunctions => returned = Bool(FALSE)
        /\ call.function \in GlueFunctions =>
            (returned = Bool(TRUE) <=> Did("sdk_call"))

----------------------------------------------------------------------------
(* C14, C16, C18: load_assets *)

\* config, as load_assets hands it to the schema of entry i
ConfigOf(i) == ResolveConfig(asset_config[i].name, Params(i), environ)

\* a bucket entry with bucket_name and a datasets list the schema accepts
ValidBucketWithDatasets(i) ==
    /\ BucketWithDatasets(i)
    /\ SchemaErrors("BucketSchema", ConfigOf(i)) = {}

\* C14: a bucket entry that gives the nested datasets list together with
\* bucket_name loads without error into the buckets collection, and the
\* Bucket owns those datasets.
C14_BucketOwnsDatasets ==
    \A i \in Processed : ValidBucketWithDatasets(i) =>
        /\ ~RaisedAt(i)
        /\ asset_config[i].name \in DOMAIN asset_map.buckets
        /\ asset_map.buckets[asset_config[i].name]["datasets"] =
                ConfigOf(i)["datasets"]

\* C16: in every collection of the asset map the object stored under a key
\* has that key as its asset_name, also when the entry's attribute mapping
\* holds an asset_name attribute.
C16_AssetNameIsKey ==
    \A i \in Stored : StoredObject(i)["asset_name"] = StrV(asset_config[i].name)

\* an entry whose asset_type is given and is none of the three types
IsUnknownType(i) ==
    /\ "asset_type" \in DOMAIN Params(i)
    /\ Params(i)["asset_type"] \notin
            {StrV(W_database), StrV(W_bucket), StrV(W_base_dataset)}

\* the keys of the three collections
KeysOf(map) ==
    DOMAIN map.buckets \cup DOMAIN map.base_datasets \cup DOMAIN map.databases

\* the asset names of the configuration
ConfigNames == {asset_config[i].name : i \in 1..Len(asset_config)}

\* C18: an entry whose asset_type is given but is none of database, bucket
\* and base_dataset is skipped: it is in none of the three collections, it
\* is not validated and load_assets raises nothing for it, whatever its
\* other attributes are.
C18_UnknownTypeSkipped ==
    \A i \in Processed : IsUnknownType(i) =>
        /\ ~RaisedAt(i)
        /\ asset_config[i].name \notin KeysOf(asset_map)

\* load_assets returned a map whose keys are some but not all of the names
\* of the configuration: an entry of an unknown type was skipped and
\* another was stored
C18_Witness ==
    /\ pc = "done"
    /\ returned.kind = "asset_map"
    /\ \E i \in 1..Len(asset_config) : IsUnknownType(i)
    /\ KeysOf(returned.value) # {}
    /\ KeysOf(returned.value) \subseteq ConfigNames
    /\ KeysOf(returned.value) # ConfigNames

====
